---- MODULE Spec2Model ----
(***************************************************************************)
(* Model of gammacat/output.py: OutputDataConfig (filename derivation),    *)
(* OutputData (reader / validator of the output tree) and OutputDataMaker  *)
(* (generator of the SED files and of the two JSON index files).           *)
(*                                                                         *)
(* A path is the sequence of its components (pathlib's parts); str(path)   *)
(* joins them with "/".  The output tree is a map from absolute paths of   *)
(* regular files to their contents, plus the set of directories.           *)
(***************************************************************************)
EXTENDS Integers, Sequences, FiniteSets, TLC

\* ------------------------------------------------------------------ bounds
MaxSeds == 2       \* number of distinct SEDs the input collection can hold
MaxLen == 3        \* longest argument list tried on log_list_difference
MaxReads == 2      \* InputData.read() calls counted per maker before the model stops

\* ------------------------------------------------------- strings and order
\* Characters of the paths of the model, in code point order (Python's str <).
Alphabet == "-./0123456789ABCDEFGHIJKLMNOPQRSTUVWXYZ_abcdefghijklmnopqrstuvwxyz"

CharRank == [c \in {SubSeq(Alphabet, i, i) : i \in 1..Len(Alphabet)} |->
               CHOOSE i \in 1..Len(Alphabet) : SubSeq(Alphabet, i, i) = c]

RECURSIVE StrLessFrom(_, _, _)
StrLessFrom(a, b, i) ==
    IF i > Len(b) THEN FALSE
    ELSE IF i > Len(a) THEN TRUE
    ELSE LET ca == CharRank[SubSeq(a, i, i)]
             cb == CharRank[SubSeq(b, i, i)]
         IN  IF ca < cb THEN TRUE
             ELSE IF ca > cb THEN FALSE
             ELSE StrLessFrom(a, b, i + 1)

\* Python's a < b on str.
StrLess(a, b) == StrLessFrom(a, b, 1)

\* The strings of S in code point order, by selection of the least.
RECURSIVE SortStrings(_)
SortStrings(S) ==
    IF S = {} THEN << >>
    ELSE LET m == CHOOSE x \in S : \A y \in S \ {x} : StrLess(x, y)
         IN  <<m>> \o SortStrings(S \ {m})

\* Python's set(list).
set(l) == {l[i] : i \in 1..Len(l)}

\* ------------------------------------------------------------------- paths
\* str(path): the components joined with "/".
RECURSIVE str(_)
str(p) ==
    IF Len(p) = 0 THEN "."
    ELSE IF Len(p) = 1 THEN p[1]
    ELSE p[1] \o "/" \o str(Tail(p))

IsUnder(p, root) ==
    /\ Len(p) > Len(root)
    /\ SubSeq(p, 1, Len(root)) = root

\* path.relative_to(root), for a path under root.
relative_to(p, root) == SubSeq(p, Len(root) + 1, Len(p))

\* path.parent
parent(p) == SubSeq(p, 1, Len(p) - 1)

\* The path itself and all its ancestors, the empty path excluded.
Ancestors(p) == {SubSeq(p, 1, n) : n \in 1..Len(p)}

\* gammacat_info.base_dir, the root of the repository checkout.
base_dir == <<"gamma-cat">>

\* OutputDataConfig.path = gammacat_info.base_dir / 'docs/data'
path == base_dir \o <<"docs", "data">>

gammacat_yaml == path \o <<"gammacat.yaml">>
gammacat_ecsv == path \o <<"gammacat.ecsv">>
gammacat_fits == path \o <<"gammacat.fits.gz">>
index_datasets_json == path \o <<"gammacat-datasets.json">>
index_sources_json == path \o <<"gammacat-sources.json">>

\* ----------------------------------------------------- tagging collaborator
\* A metadata record carries the fields the tagging scheme reads.
\* The k-th SED is dataset k, and two consecutive datasets share a source.
Metas == {[source_id |-> (k + 1) \div 2, reference_id |-> k] : k \in 1..MaxSeds}

\* gammacat_tag.source_str(meta): the directory name of the source.
source_str(meta) == "src" \o ToString(meta.source_id)

\* gammacat_tag.source_dataset_filename(meta): the tag of the dataset.
source_dataset_filename(meta) == "tag" \o ToString(meta.reference_id)

\* ----------------------------------------------------- OutputDataConfig
\* The datatype arguments tried: the two valid ones and some invalid ones.
Datatypes == {"sed", "lc", "xyz", "SED", ""}

\* Variant: every datatype is given a filename.
make_filename_any(meta, datatype, relative) ==
    LET tag == source_dataset_filename(meta)
        base_path == IF relative THEN << >> ELSE path
        source_path == base_path \o <<"sources">> \o <<source_str(meta)>>
    IN  IF datatype = "sed"
        THEN [exc |-> "none", value |-> source_path \o <<tag \o "_sed.ecsv">>]
        ELSE [exc |-> "none", value |-> source_path \o <<tag \o "_" \o datatype \o ".ecsv">>]

\* Variant: the relative flag is ignored.
make_filename_abs(meta, datatype, relative) ==
    LET tag == source_dataset_filename(meta)
        base_path == path
        source_path == base_path \o <<"sources">> \o <<source_str(meta)>>
    IN  IF datatype = "sed"
        THEN [exc |-> "none", value |-> source_path \o <<tag \o "_sed.ecsv">>]
        ELSE IF datatype = "lc"
        THEN [exc |-> "none", value |-> source_path \o <<tag \o "_lc.ecsv">>]
        ELSE [exc |-> "ValueError", value |-> << >>]

\* OutputDataConfig.make_filename: the path, or the exception raised.
make_filename(meta, datatype, relative) ==
    LET tag == source_dataset_filename(meta)
        base_path == IF relative THEN << >> ELSE path
        source_path == base_path \o <<"sources">> \o <<source_str(meta)>>
    IN  IF datatype = "sed"
        THEN [exc |-> "none", value |-> source_path \o <<tag \o "_sed.ecsv">>]
        ELSE IF datatype = "lc"
        THEN [exc |-> "none", value |-> source_path \o <<tag \o "_lc.ecsv">>]
        ELSE [exc |-> "ValueError", value |-> << >>]

\* ------------------------------------------------------ the paths in play
SedPath(m) == make_filename(m, "sed", FALSE).value

ReadmePath == path \o <<"README.md">>
StrayPath == path \o <<"notes.txt">>
ReleasePaths == {ReadmePath, gammacat_yaml, gammacat_ecsv, gammacat_fits}
IndexPaths == {index_datasets_json, index_sources_json}

\* Paths handed to log_list_difference when it is exercised on its own.
DiffPaths == {"a", "b", "c"}

\* Every file and directory that can exist below the output root, relative to it.
TreeStrings ==
    LET files == ReleasePaths \cup IndexPaths \cup {StrayPath}
                 \cup {SedPath(m) : m \in Metas}
        entries == UNION {Ancestors(p) : p \in files}
    IN  {str(relative_to(p, path)) : p \in {q \in entries : IsUnder(q, path)}}

\* The strings above in code point order.
CodePointOrder == SortStrings(TreeStrings \cup DiffPaths)

\* Python's sorted(S) for a set S of str.
sorted(S) ==
    SelectSeq(CodePointOrder, LAMBDA x : x \in S)
    \o (IF S \subseteq TreeStrings \cup DiffPaths THEN << >>
        ELSE SortStrings(S \ (TreeStrings \cup DiffPaths)))

\* --------------------------------------------------------------- logging
ErrorRecord(kind, paths) == [level |-> "error", kind |-> kind, paths |-> paths]
InfoRecord(kind, what) == [level |-> "info", kind |-> kind, paths |-> what]

\* Variant: only the first finding is logged.
log_list_difference_first(actual, expected) ==
    LET missing == sorted(set(expected) \ set(actual))
        extra == sorted(set(actual) \ set(expected))
    IN  IF missing # << >> THEN <<ErrorRecord("Missing", missing)>>
        ELSE IF extra # << >> THEN <<ErrorRecord("Extra", extra)>>
        ELSE << >>

\* log_list_difference: the records it appends to the log.
log_list_difference(actual, expected) ==
    LET missing == sorted(set(expected) \ set(actual))
        extra == sorted(set(actual) \ set(expected))
    IN  (IF missing # << >> THEN <<ErrorRecord("Missing", missing)>> ELSE << >>)
        \o (IF extra # << >> THEN <<ErrorRecord("Extra", extra)>> ELSE << >>)

\* ------------------------------------------------------------------ state
VARIABLES
    disk_input,   \* the input collection on disk: the metadata of its SEDs, in order
    tree,         \* regular files on disk: absolute path -> content
    dirs,         \* directories on disk (absolute paths)
    input_data,   \* OutputDataMaker.input_data: Unset, or the cached InputData
    reads,        \* number of InputData.read() calls made for the current maker
    od,           \* the OutputData object held by the caller
    log,          \* records logged by the most recent call
    op,           \* name of the most recent call
    exc,          \* exception the most recent call ended with, or "none"
    args,         \* arguments of a call to a module-level / static function
    ret           \* value returned by the most recent call, when it returns one

vars == <<disk_input, tree, dirs, input_data, reads, od, log, op, exc, args, ret>>

\* An optional value is the empty sequence or the one-element sequence.
None == << >>
Some(x) == <<x>>
Value(o) == o[1]
Unset == None         \* a lazyproperty that is not evaluated yet

\* ---------------------------------------------------------- file contents
EcsvFile(table) == [fmt |-> "ascii.ecsv", body |-> table]
JsonFile(doc) == [fmt |-> "json", body |-> doc]
FitsFile == [fmt |-> "fits", body |-> "catalog"]
OtherFile == [fmt |-> "text", body |-> "text"]

\* An OrderedDict is the sequence of its (key, value) pairs.
Get(doc, key) == (CHOOSE i \in 1..Len(doc) : doc[i][1] = key) 
HasKey(doc, key) == \E i \in 1..Len(doc) : doc[i][1] = key
Item(doc, key) == doc[Get(doc, key)][2]

\* gammacat_info.info_dict
info_dict == <<<<"version", "1">>>>

\* f with the file at p set to content c (created or overwritten).
WriteFile(f, p, c) == [q \in (DOMAIN f) \cup {p} |-> IF q = p THEN c ELSE f[q]]

\* ------------------------------------------------------------- input layer
\* SED.process(): converts units and adds derived columns, so that a processed
\* table stays as it is.
process(table) == [table EXCEPT !.state = "processed"]

\* SEDList.read(): the SEDs of the input collection, as read from disk.
SEDList_read == [i \in 1..Len(disk_input) |->
                    [table |-> [meta |-> disk_input[i], state |-> "raw"]]]

\* InputData.read()
InputData_read ==
    [seds |-> SEDList_read,
     datasets |-> disk_input,
     sources |-> sorted({source_str(disk_input[i]) : i \in 1..Len(disk_input)})]

\* --------------------------------------------------------------- OutputData
\* OutputData.list_of_files(pattern='*') on the tree with files f, directories d.
\* A scan yields the entries of the tree in a fixed order, here code point order.
list_of_files(f, d) ==
    sorted({str(relative_to(p, path)) :
              p \in {q \in (DOMAIN f) \cup d : IsUnder(q, path) /\ q \in DOMAIN f}})

expected_files_extra ==
    <<"README.md", "gammacat-datasets.json", "gammacat-sources.json",
      "gammacat.fits.gz", "gammacat.ecsv", "gammacat.yaml">>

\* ----------------------------------------------------------- machine state
\* The part of the state the maker's methods work on.
Machine == [tree |-> tree, dirs |-> dirs, input_data |-> input_data,
            reads |-> reads, log |-> << >>, exc |-> "none"]

Logged(s, rec) == [s EXCEPT !.log = @ \o <<rec>>]

\* Variant: the input is read at every access.
input_data_uncached(s) ==
    [Logged(s, InfoRecord("Reading input data ...", << >>))
        EXCEPT !.input_data = Some(InputData_read), !.reads = @ + 1]

\* OutputDataMaker.input_data (lazyproperty): s with the input data loaded.
with_input_data(s) ==
    IF s.input_data # Unset THEN s
    ELSE [Logged(s, InfoRecord("Reading input data ...", << >>))
            EXCEPT !.input_data = Some(InputData_read), !.reads = @ + 1]

\* Variant: mkdir without exist_ok.
mkdir_no_exist_ok(s, p) ==
    IF p \in DOMAIN s.tree \/ p \in s.dirs
    THEN [s EXCEPT !.exc = "FileExistsError"]
    ELSE [s EXCEPT !.dirs = @ \cup Ancestors(p)]

\* path.mkdir(parents=True, exist_ok=True)
mkdir(s, p) ==
    IF p \in DOMAIN s.tree
    THEN [s EXCEPT !.exc = "FileExistsError"]
    ELSE [s EXCEPT !.dirs = @ \cup Ancestors(p)]

\* One iteration of the loop of make_sed_files, on the i-th SED.
make_sed_file(s, i) ==
    LET s1 == Logged(s, [level |-> "debug", kind |-> "Processing SED", paths |-> <<i>>])
        s2 == [s1 EXCEPT !.input_data[1].seds[i].table = process(@)]
        sed == Value(s2.input_data).seds[i]
        fn == make_filename(sed.table.meta, "sed", FALSE)
        s3 == mkdir(s2, parent(fn.value))
        s4 == Logged(s3, InfoRecord("Writing", fn.value))
    IN  IF fn.exc # "none" THEN [s2 EXCEPT !.exc = fn.exc]
        ELSE IF s3.exc # "none" THEN s3
        ELSE [s4 EXCEPT !.tree = WriteFile(@, fn.value, EcsvFile(sed.table))]

RECURSIVE make_sed_files_from(_, _)
make_sed_files_from(s, i) ==
    IF s.exc # "none" \/ i > Len(Value(s.input_data).seds) THEN s
    ELSE make_sed_files_from(make_sed_file(s, i), i + 1)

\* OutputDataMaker.make_sed_files
make_sed_files(s) == make_sed_files_from(with_input_data(s), 1)

write_json(s, data, p) == [s EXCEPT !.tree = WriteFile(@, p, JsonFile(data))]

\* OutputDataMaker.make_index_files_datasets
make_index_files_datasets(s) ==
    IF s.exc # "none" THEN s
    ELSE LET s1 == with_input_data(s)
             data == <<<<"info", info_dict>>,
                       <<"data", Value(s1.input_data).datasets>>,
                       <<"files", list_of_files(s1.tree, s1.dirs)>>>>
         IN  write_json(s1, data, index_datasets_json)

\* Variant: the source index is written to the dataset index path.
make_index_files_sources_wrong_path(s) ==
    IF s.exc # "none" THEN s
    ELSE LET s1 == with_input_data(s)
             data == <<<<"info", info_dict>>,
                       <<"data", Value(s1.input_data).sources>>>>
         IN  write_json(s1, data, index_datasets_json)

\* OutputDataMaker.make_index_files_sources
make_index_files_sources(s) ==
    IF s.exc # "none" THEN s
    ELSE LET s1 == with_input_data(s)
             data == <<<<"info", info_dict>>,
                       <<"data", Value(s1.input_data).sources>>>>
         IN  write_json(s1, data, index_sources_json)

\* Variant: the source index is written first.
make_index_files_sources_first(s) ==
    make_index_files_datasets(make_index_files_sources(s))

\* OutputDataMaker.make_index_files
make_index_files(s) == make_index_files_sources(make_index_files_datasets(s))

\* Variant: the indexes are built before the SED files are written.
make_all_index_first(s) == make_sed_files(make_index_files(s))

\* OutputDataMaker.make_all
make_all(s) == make_index_files(make_sed_files(s))

\* ------------------------------------------------- OutputData (continued)
\* OutputData(index_dataset=None, index_sources=None, gammacat=None)
OutputData(index_dataset, index_sources, gammacat) ==
    [index_dataset |-> index_dataset, index_sources |-> index_sources,
     gammacat |-> gammacat]

\* load_json(p) / Table.read(p) on the files f: the content, or the exception.
load(f, p, fmt) ==
    IF p \notin DOMAIN f THEN [exc |-> "FileNotFoundError", value |-> None]
    ELSE IF f[p].fmt # fmt THEN [exc |-> "ParseError", value |-> None]
    ELSE [exc |-> "none", value |-> Some(f[p].body)]

\* OutputData.read(): the new object, or the exception raised.
OutputData_read(f) ==
    LET gammacat == load(f, gammacat_fits, "fits")
        index_dataset == load(f, index_datasets_json, "json")
        index_sources == load(f, index_sources_json, "json")
    IN  IF gammacat.exc # "none" THEN [exc |-> gammacat.exc, value |-> None]
        ELSE IF index_dataset.exc # "none" THEN [exc |-> index_dataset.exc, value |-> None]
        ELSE IF index_sources.exc # "none" THEN [exc |-> index_sources.exc, value |-> None]
        ELSE [exc |-> "none",
              value |-> Some(OutputData(index_dataset.value, index_sources.value,
                                        gammacat.value))]

\* The relative SED filenames validation derives from the input on disk.
expected_files_sed ==
    [i \in 1..Len(SEDList_read) |->
        str(make_filename(SEDList_read[i].table.meta, "sed", TRUE).value)]

\* Variant: validation ends at the first comparison that finds something.
validate_list_of_files_stop(self, f, d) ==
    LET actual == list_of_files(f, d)
        first == log_list_difference(actual, Item(Value(self.index_dataset), "files"))
        expected_files == expected_files_extra \o expected_files_sed
    IN  IF self.index_dataset = None THEN [exc |-> "TypeError", log |-> << >>]
        ELSE IF first # << >> THEN [exc |-> "none", log |-> first]
        ELSE [exc |-> "none", log |-> log_list_difference(actual, expected_files)]

\* OutputData.validate_list_of_files on the object self: the records logged
\* and the exception raised.
validate_list_of_files(self, f, d) ==
    LET actual == list_of_files(f, d)
        expected_files == expected_files_extra \o expected_files_sed
    IN  IF self.index_dataset = None THEN [exc |-> "TypeError", log |-> << >>]
        ELSE IF ~HasKey(Value(self.index_dataset), "files")
        THEN [exc |-> "KeyError", log |-> << >>]
        ELSE [exc |-> "none",
              log |-> log_list_difference(actual,
                                          Item(Value(self.index_dataset), "files"))
                      \o log_list_difference(actual, expected_files)]

\* OutputData.validate
validate(self, f, d) ==
    LET r == validate_list_of_files(self, f, d)
    IN  [r EXCEPT !.log = <<InfoRecord("Validating output data ...", << >>)>> \o @]

\* -------------------------------------------------------------------- Init
\* A list of metadata records in the order the input layer yields them.
RECURSIVE MetaSeq(_)
MetaSeq(S) ==
    IF S = {} THEN << >>
    ELSE LET m == CHOOSE x \in S : \A y \in S \ {x} :
                      \/ x.source_id < y.source_id
                      \/ x.source_id = y.source_id /\ x.reference_id < y.reference_id
         IN  <<m>> \o MetaSeq(S \ {m})

\* Content of a file that an earlier release left in the tree.
InitContent(p, files) ==
    IF p = gammacat_fits THEN FitsFile
    ELSE IF p = index_datasets_json
    THEN JsonFile(<<<<"info", info_dict>>, <<"data", << >> >>, <<"files", files>>>>)
    ELSE IF p = index_sources_json
    THEN JsonFile(<<<<"info", info_dict>>, <<"data", << >> >>>>)
    ELSE IF \E m \in Metas : SedPath(m) = p
    THEN EcsvFile([meta |-> CHOOSE m \in Metas : SedPath(m) = p, state |-> "outdated"])
    ELSE OtherFile

\* What the dataset index of an earlier run records when the tree has changed
\* since: the files of a tree that held a README and a stray file.
OldFiles == <<"README.md", "notes.txt">>

\* The trees generation can start from: the release files of the catalog
\* maker (all, or all but the FITS table), both index files or none, any SED
\* files, possibly a stray file; a dataset index left by an earlier run
\* records either the files of the tree or those of an older tree.
InitTrees ==
    { LET P == c[1] \cup c[2] \cup c[3] \cup c[4]
          files == IF c[5] THEN list_of_files([q \in P |-> OtherFile], {}) ELSE OldFiles
      IN  [p \in P |-> InitContent(p, files)] :
        c \in {ReleasePaths, ReleasePaths \ {gammacat_fits}}
              \X {IndexPaths, {}}
              \X (SUBSET {SedPath(m) : m \in Metas})
              \X (SUBSET {StrayPath})
              \X BOOLEAN }

InitState ==
    /\ \E S \in SUBSET Metas : disk_input = MetaSeq(S)
    /\ tree \in InitTrees
    /\ dirs = Ancestors(path) \cup UNION {Ancestors(parent(p)) : p \in DOMAIN tree}
    /\ input_data = Unset
    /\ reads = 0
    /\ od = OutputData(None, None, None)
    /\ log = << >>
    /\ exc = "none"
    /\ ret = None

Init ==
    /\ InitState
    /\ op = "init"
    /\ args = None

\* ----------------------------------------------------------------- actions
\* A call of a method of the maker.
MakerCall(name, method(_)) ==
    /\ reads < MaxReads
    /\ LET s == method(Machine)
       IN  /\ tree' = s.tree
           /\ dirs' = s.dirs
           /\ input_data' = s.input_data
           /\ reads' = s.reads
           /\ log' = s.log
           /\ exc' = s.exc
    /\ op' = name
    /\ ret' = None
    /\ UNCHANGED <<disk_input, od, args>>

MakeSedFiles == MakerCall("make_sed_files", make_sed_files)
MakeIndexFilesDatasets == MakerCall("make_index_files_datasets", make_index_files_datasets)
MakeIndexFilesSources == MakerCall("make_index_files_sources", make_index_files_sources)
MakeIndexFiles == MakerCall("make_index_files", make_index_files)
MakeAll == MakerCall("make_all", make_all)

\* OutputDataMaker(): a new maker, nothing read yet.
NewMaker ==
    /\ input_data # Unset
    /\ input_data' = Unset
    /\ reads' = 0
    /\ log' = << >>
    /\ exc' = "none"
    /\ op' = "OutputDataMaker"
    /\ ret' = None
    /\ UNCHANGED <<disk_input, tree, dirs, od, args>>

\* od = OutputData.read()
Read ==
    /\ LET r == OutputData_read(tree)
       IN  /\ od' = IF r.exc = "none" THEN Value(r.value) ELSE od
           /\ exc' = r.exc
    /\ log' = << >>
    /\ op' = "read"
    /\ ret' = None
    /\ UNCHANGED <<disk_input, tree, dirs, input_data, reads, args>>

\* A call of a method of od that returns nothing.
ValidatorCall(name, method(_, _, _)) ==
    /\ LET r == method(od, tree, dirs)
       IN  /\ log' = r.log
           /\ exc' = r.exc
    /\ op' = name
    /\ ret' = None
    /\ UNCHANGED <<disk_input, tree, dirs, input_data, reads, od, args>>

Validate == ValidatorCall("validate", validate)
ValidateListOfFiles == ValidatorCall("validate_list_of_files", validate_list_of_files)

\* od.list_of_files()
ListOfFiles ==
    /\ ret' = Some(list_of_files(tree, dirs))
    /\ log' = << >>
    /\ exc' = "none"
    /\ op' = "list_of_files"
    /\ UNCHANGED <<disk_input, tree, dirs, input_data, reads, od, args>>

Next ==
    \/ MakeSedFiles
    \/ MakeIndexFilesDatasets
    \/ MakeIndexFilesSources
    \/ MakeIndexFiles
    \/ MakeAll
    \/ NewMaker
    \/ Read
    \/ Validate
    \/ ValidateListOfFiles
    \/ ListOfFiles

Spec == Init /\ [][Next]_vars

\* ---------------------------------------- log_list_difference on its own
\* All lists of at most n of the paths of S.
RECURSIVE Lists(_, _)
Lists(S, n) ==
    IF n = 0 THEN {<< >>}
    ELSE Lists(S, n - 1) \cup {Append(l, x) : l \in Lists(S, n - 1), x \in S}

EmptyTree == [p \in {} |-> OtherFile]

InitDiff ==
    /\ disk_input = << >>
    /\ tree = EmptyTree
    /\ dirs = Ancestors(path)
    /\ input_data = Unset
    /\ reads = 0
    /\ od = OutputData(None, None, None)
    /\ log = << >>
    /\ exc = "none"
    /\ ret = None
    /\ op = "init"
    /\ \E actual \in Lists(DiffPaths, MaxLen), expected \in Lists(DiffPaths, MaxLen) :
          args = Some([actual |-> actual, expected |-> expected])

\* log_list_difference(actual, expected)
CallLogListDifference ==
    /\ op = "init"
    /\ log' = log_list_difference(Value(args).actual, Value(args).expected)
    /\ exc' = "none"
    /\ op' = "log_list_difference"
    /\ ret' = None
    /\ UNCHANGED <<disk_input, tree, dirs, input_data, reads, od, args>>

NextDiff == CallLogListDifference

SpecDiff == InitDiff /\ [][NextDiff]_vars

\* ------------------------------------------------ make_filename on its own
InitFilename ==
    /\ InitState
    /\ op = "init"
    /\ \E meta \in Metas, datatype \in Datatypes, relative \in BOOLEAN :
          args = Some([meta |-> meta, datatype |-> datatype, relative |-> relative])

\* OutputDataConfig.make_filename(meta, datatype, relative)
CallMakeFilename ==
    /\ op = "init"
    /\ LET r == make_filename(Value(args).meta, Value(args).datatype, Value(args).relative)
       IN  /\ exc' = r.exc
           /\ ret' = IF r.exc = "none" THEN Some(r.value) ELSE None
    /\ log' = << >>
    /\ op' = "make_filename"
    /\ UNCHANGED <<disk_input, tree, dirs, input_data, reads, od, args>>

NextFilename == CallMakeFilename

SpecFilename == InitFilename /\ [][NextFilename]_vars

\* ------------------------------------------------------------------ claims
\* Helpers for the properties below.
ErrorRecords(l) == SelectSeq(l, LAMBDA r : r.level = "error")
IsStrictlySorted(l) == \A i \in 1..(Len(l) - 1) : StrLess(l[i], l[i + 1])
NoDuplicates(l) == \A i, j \in 1..Len(l) : i # j => l[i] # l[j]
Count(b) == IF b THEN 1 ELSE 0

\* The files of the tree f, as strings relative to the output root.
ActualFiles(f) == {str(relative_to(p, path)) : p \in DOMAIN f}

\* The 'files' list of the dataset index stored in the tree f.
RecordedFiles(f) == Item(f[index_datasets_json].body, "files")

\* The relative SED filenames of a list of metadata records.
SedFiles(metas) ==
    {"sources/" \o source_str(metas[i]) \o "/"
        \o source_dataset_filename(metas[i]) \o "_sed.ecsv" : i \in 1..Len(metas)}

ExtraFiles == {"README.md", "gammacat-datasets.json", "gammacat-sources.json",
               "gammacat.fits.gz", "gammacat.ecsv", "gammacat.yaml"}

MakerOps == {"make_sed_files", "make_index_files_datasets",
             "make_index_files_sources", "make_index_files", "make_all"}

\* The records a comparison of the sets actual and expected must leave in the log l.
Reports(l, actual, expected) ==
    /\ (expected \ actual # {}) <=>
           (\E i \in 1..Len(l) : l[i].kind = "Missing" /\ set(l[i].paths) = expected \ actual)
    /\ (actual \ expected # {}) <=>
           (\E i \in 1..Len(l) : l[i].kind = "Extra" /\ set(l[i].paths) = actual \ expected)

\* C4: log_list_difference logs Missing = sorted(expected \ actual) iff that set
\* is non-empty, then Extra = sorted(actual \ expected) iff that set is
\* non-empty, and nothing else; equal sets of paths log nothing.
C4_LogListDifference ==
    op = "log_list_difference" =>
        LET actual == set(Value(args).actual)
            expected == set(Value(args).expected)
        IN  /\ Len(log) = Count(expected \ actual # {}) + Count(actual \ expected # {})
            /\ \A i \in 1..Len(log) :
                  /\ log[i].level = "error"
                  /\ IsStrictlySorted(log[i].paths)
                  /\ log[i].kind = "Missing" => set(log[i].paths) = expected \ actual
                  /\ log[i].kind = "Extra" => set(log[i].paths) = actual \ expected
                  /\ log[i].kind \in {"Missing", "Extra"}
            /\ Reports(log, actual, expected)
            /\ (actual = expected => log = << >>)

C4_Witness ==
    /\ op = "log_list_difference"
    /\ Value(args) = [actual |-> <<"a", "b">>, expected |-> <<"b", "c">>]
    /\ log = <<ErrorRecord("Missing", <<"c">>), ErrorRecord("Extra", <<"a">>)>>

\* C5: make_filename raises ValueError exactly for the datatypes other than
\* 'sed' and 'lc', whatever the relative flag, returns a path otherwise, and
\* the call changes neither the tree nor the maker's or validator's state.
C5_InvalidDatatype ==
    [][op' = "make_filename" =>
          /\ (exc' = "ValueError") <=> (Value(args).datatype \notin {"sed", "lc"})
          /\ (Value(args).datatype \in {"sed", "lc"}) => (exc' = "none" /\ ret' # None)
          /\ (exc' # "none") => (ret' = None)
          /\ UNCHANGED <<disk_input, tree, dirs, input_data, reads, od>>]_vars

C5_Witness ==
    /\ op = "make_filename"
    /\ Value(args).datatype = "xyz"
    /\ exc = "ValueError"
    /\ ret = None

\* C6: for 'sed' and 'lc' the absolute filename is the base output directory
\* followed by the relative filename, and the relative filename is
\* sources/<source_str>/<tag>_<datatype>.ecsv.
C6_RelativeIsSuffix ==
    (op = "make_filename" /\ Value(args).datatype \in {"sed", "lc"}) =>
        LET meta == Value(args).meta
            datatype == Value(args).datatype
            expected == "sources/" \o source_str(meta) \o "/"
                        \o source_dataset_filename(meta) \o "_" \o datatype \o ".ecsv"
            other == make_filename(meta, datatype, ~Value(args).relative).value
            rel == IF Value(args).relative THEN Value(ret) ELSE other
            abs == IF Value(args).relative THEN other ELSE Value(ret)
        IN  /\ exc = "none"
            /\ str(rel) = expected
            /\ abs = path \o rel
            /\ Len(rel) < Len(abs)

C6_Witness ==
    /\ op = "make_filename"
    /\ Value(args).datatype = "lc"
    /\ ~Value(args).relative
    /\ ret = Some(path \o <<"sources", "src1", "tag2_lc.ecsv">>)

\* The outcome of od = OutputData.read(); od.validate_list_of_files() on the
\* tree with files f and directories d.
ReadThenValidate(f, d) ==
    LET r == OutputData_read(f)
    IN  IF r.exc # "none" THEN [exc |-> r.exc, log |-> << >>]
        ELSE validate_list_of_files(Value(r.value), f, d)

FirstSed == [source_id |-> 1, reference_id |-> 1]

\* The end-to-end outcome: the dataset index records exactly the SED file and
\* the six fixed files, and validation run right away logs nothing.
EndToEndClean(f, d) ==
    /\ index_datasets_json \in DOMAIN f
    /\ set(RecordedFiles(f)) = {"sources/src1/tag1_sed.ecsv"} \cup ExtraFiles
    /\ ReadThenValidate(f, d) = [exc |-> "none", log |-> << >>]

\* C1 as stated: from any output tree, with the single SED src1/tag1 as
\* input, make_all() leaves a dataset index that records exactly that SED file
\* and the six fixed files, and validation right afterwards is clean.
C1_Original ==
    [][(op' = "make_all" /\ disk_input = <<FirstSed>>) => EndToEndClean(tree', dirs')]_vars

\* C1 (amended): the same, from an output tree that holds the six fixed files
\* and, besides them, at most that SED file.
C1_EndToEnd ==
    [][(/\ op' = "make_all"
        /\ disk_input = <<FirstSed>>
        /\ ExtraFiles \subseteq ActualFiles(tree)
        /\ ActualFiles(tree) \subseteq ExtraFiles \cup {"sources/src1/tag1_sed.ecsv"})
       => EndToEndClean(tree', dirs')]_vars

C1_Witness ==
    /\ op = "make_all"
    /\ disk_input = <<FirstSed>>
    /\ ActualFiles(tree) = ExtraFiles \cup {"sources/src1/tag1_sed.ecsv"}
    /\ tree[SedPath(FirstSed)].body.state = "processed"
    /\ EndToEndClean(tree, dirs)

\* C2: after every make_all() the relative SED filename of every SED of the
\* input is in the 'files' list of the dataset index that call wrote.
C2_IndexAfterSedFiles ==
    op = "make_all" =>
        /\ exc = "none"
        /\ index_datasets_json \in DOMAIN tree
        /\ SedFiles(disk_input) \subseteq set(RecordedFiles(tree))

C2_Witness ==
    /\ op = "make_all"
    /\ Len(disk_input) = MaxSeds
    /\ StrayPath \notin DOMAIN tree
    /\ SedFiles(disk_input) \subseteq set(RecordedFiles(tree))
    /\ "gammacat-datasets.json" \notin set(RecordedFiles(tree))

\* C3: on an object that holds a dataset index, validate_list_of_files() (and
\* validate()) ends normally and has logged the findings of both comparisons:
\* actual vs. the recorded 'files', then actual vs. the fixed files plus the
\* SED filenames of the input, whatever the first comparison found.
C3_ValidationCompletes ==
    (op \in {"validate", "validate_list_of_files"} /\ od.index_dataset # None) =>
        LET actual == ActualFiles(tree)
            recorded == set(Item(Value(od.index_dataset), "files"))
            derived == ExtraFiles \cup SedFiles(disk_input)
            errors == ErrorRecords(log)
            n1 == Count(recorded \ actual # {}) + Count(actual \ recorded # {})
            n2 == Count(derived \ actual # {}) + Count(actual \ derived # {})
        IN  /\ exc = "none"
            /\ Len(errors) = n1 + n2
            /\ Reports(SubSeq(errors, 1, n1), actual, recorded)
            /\ Reports(SubSeq(errors, n1 + 1, n1 + n2), actual, derived)

C3_Witness ==
    /\ op = "validate_list_of_files"
    /\ exc = "none"
    /\ Len(log) = 4
    /\ log[1].kind = "Missing"
    /\ log[3].kind = "Missing"

C8_InputReadOnce ==
    [][/\ reads' <= 1
       /\ (op' \in MakerOps /\ input_data = Unset) => (reads' = 1 /\ input_data' # Unset)
       /\ (op' \in MakerOps /\ input_data # Unset) =>
             /\ reads' = reads
             /\ input_data' # Unset
             /\ Value(input_data').datasets = Value(input_data).datasets
             /\ Value(input_data').sources = Value(input_data).sources
             /\ Len(Value(input_data').seds) = Len(Value(input_data).seds)]_vars

C8_Witness ==
    /\ op = "make_index_files_sources"
    /\ reads = 1
    /\ input_data # Unset
    /\ Len(disk_input) > 0
    /\ \A i \in 1..Len(disk_input) : Value(input_data).seds[i].table.state = "processed"

\* Only the file at p differs between the trees f and g.
OnlyChanged(f, g, p) ==
    /\ (DOMAIN g) \ {p} = (DOMAIN f) \ {p}
    /\ \A q \in (DOMAIN f) \ {p} : g[q] = f[q]

\* C9: reading, validating and listing leave the tree as it is; building the
\* source index changes only the source index file and building the dataset
\* index changes only the dataset index file.
C9_TreeFrame ==
    [][/\ op' \in {"read", "validate", "validate_list_of_files", "list_of_files"}
             => (tree' = tree /\ dirs' = dirs)
       /\ op' = "make_index_files_sources"
             => (OnlyChanged(tree, tree', index_sources_json) /\ dirs' = dirs)
       /\ op' = "make_index_files_datasets"
             => (OnlyChanged(tree, tree', index_datasets_json) /\ dirs' = dirs)]_vars

C9_Witness ==
    /\ op = "make_index_files_sources"
    /\ index_sources_json \in DOMAIN tree
    /\ index_datasets_json \notin DOMAIN tree

\* C10: make_all() records the files the tree held before the call plus the
\* SED files of the run; so on a tree without the two index files it records
\* neither of them although it creates both, and a make_all() that follows a
\* make_all() records exactly the files of the tree.
C10_StaleIndexFixpoint ==
    [][op' = "make_all" =>
          /\ set(RecordedFiles(tree')) = ActualFiles(tree) \cup SedFiles(disk_input)
          /\ (IndexPaths \cap DOMAIN tree = {}) =>
                /\ set(RecordedFiles(tree'))
                       \cap {"gammacat-datasets.json", "gammacat-sources.json"} = {}
                /\ IndexPaths \subseteq DOMAIN tree'
          /\ (op = "make_all") => (set(RecordedFiles(tree')) = ActualFiles(tree'))]_vars

C10_Witness ==
    /\ op = "make_all"
    /\ IndexPaths \subseteq DOMAIN tree
    /\ set(RecordedFiles(tree)) = ActualFiles(tree) \ {"gammacat-datasets.json", "gammacat-sources.json"}
    /\ Len(disk_input) > 0

====
